---- MODULE Spec2Model ----
(***************************************************************************)
(* A model of go-logslib's Logger (package logger): level filtering, the   *)
(* scratch-buffer pool, the text/JSON record and value encoders, and the   *)
(* buffered / unbuffered delivery path with Flush.                         *)
(*                                                                         *)
(* A byte is a one-character string and a []byte or Go string is a         *)
(* sequence of them.  Goroutines are the processes of Procs; every         *)
(* goroutine's position inside log / write / Flush is pc[p].               *)
(***************************************************************************)
EXTENDS Integers, Sequences, FiniteSets, TLC

VARIABLES
    config,     \* Logger.config: [Level, Format, BufferSize, UseUTC]
    buffer,     \* Logger.buffer: the accumulation buffer
    mu,         \* Logger.mu: 0 when free, else the goroutine holding it
    pool,       \* Logger.pool: the idle slice headers [arr, len]
    scratch,    \* the backing arrays of the scratch slices, by array number
    out,        \* config.Output: the sequence of Write calls it received
    errs,       \* config.Output: the numbers of the Write calls that returned an error
    pc,         \* each goroutine's position
    op,         \* each goroutine's current call: [kind, level, msg, fields]
    buf,        \* each goroutine's local slice buf in log: [arr, len]
    deferred,   \* the argument of each goroutine's pending "defer l.pool.Put(buf)"
    halted,     \* os.Exit(1) was called
    nops,       \* number of Logger calls made so far
    snap,       \* history: buffer and number of sink writes when p took the lock
    delivered,  \* history: the records appended to the accumulation buffer, in order
    encArg,     \* encoder harness: the input
    encRes,     \* encoder harness: the output
    encPc       \* encoder harness: "in" before the encoder ran, "done" after

vars == <<config, buffer, mu, pool, scratch, out, errs, pc, op, buf, deferred,
          halted, nops, snap, delivered, encArg, encRes, encPc>>

loggerVars == <<config, buffer, mu, pool, scratch, out, errs, pc, op, buf,
                deferred, halted, nops, snap, delivered>>

encVars == <<encArg, encRes, encPc>>

----------------------------------------------------------------------------
(* Bytes *)

Bytes(s) == [i \in 1..Len(s) |-> SubSeq(s, i, i)]

NL == "\n"

Quote == "\""

Backslash == "\\"

\* The bytes below 0x20 among the bytes the model draws from.
ControlBytes == {"\n", "\r", "\t", "\f"}

DigitChars == Bytes("0123456789")

\* byte('0' + d) for a decimal digit d
DigitByte(d) == DigitChars[d + 1]

----------------------------------------------------------------------------
(* Bounds *)

\* Logger calls (log entry points and Flush) made in one behaviour.
MaxOps == 2

\* The two buffered capacities tried besides 0 (unbuffered).
CapSmall == 50

CapLarge == 100

\* TLC's integers are 32 bits wide: int64 is modelled as an IntBits-bit
\* two's-complement integer.
IntBits == 16

\* A float64 is modelled as a fixed-point number with FracDigits decimal
\* fractional digits and an integer part of magnitude at most MaxIntPart.
FracDigits == 4

MaxIntPart == 3

\* Longest message / key / string value and most fields the encoder
\* harnesses draw.
MaxStrLen == 1

MaxFields == 2

\* Sink writes that return an error in one behaviour.
MaxErrs == 1

\* The slots for the Logger calls in flight at one time: two goroutines
\* may be inside the Logger at once.
Procs == {1, 2}

----------------------------------------------------------------------------
(* Level, Format *)

DebugLevel == -1

InfoLevel == 0

WarnLevel == 1

ErrorLevel == 2

FatalLevel == 3

PanicLevel == 4

Levels == DebugLevel..PanicLevel

LevelString(l) ==
    CASE l = DebugLevel -> Bytes("DEBUG")
      [] l = InfoLevel -> Bytes("INFO")
      [] l = WarnLevel -> Bytes("WARN")
      [] l = ErrorLevel -> Bytes("ERROR")
      [] l = FatalLevel -> Bytes("FATAL")
      [] l = PanicLevel -> Bytes("PANIC")
      [] OTHER -> Bytes("UNKNOWN")

TextFormat == 0

JSONFormat == 1

Formats == {TextFormat, JSONFormat}

----------------------------------------------------------------------------
(* int64 *)

IntMod == 2 ^ IntBits

MinInt == -(2 ^ (IntBits - 1))

MaxInt == (2 ^ (IntBits - 1)) - 1

\* The value an int64 computation leaves: x reduced into MinInt..MaxInt.
Wrap(x) == ((x - MinInt) % IntMod) + MinInt

----------------------------------------------------------------------------
(* Value encoder *)

\* A Field.Value is a tagged value: [t |-> "string", v |-> bytes],
\* [t |-> "int" or "int64", v |-> integer], [t |-> "float64", v |-> n] for
\* the number n / FracUnit, [t |-> "bool", v |-> BOOLEAN], and
\* [t |-> "other"] for a value of any other dynamic type.
FracUnit == 10 ^ FracDigits

\* The loop of appendInt: digits of i, least significant first, stored
\* from the end of tmp towards its start.
RECURSIVE IntDigits(_, _)
IntDigits(i, tmp) ==
    IF i > 0 THEN IntDigits(i \div 10, <<DigitByte(i % 10)>> \o tmp) ELSE tmp

appendInt(b, i) ==
    IF i = 0
    THEN Append(b, "0")
    ELSE LET b1 == IF i < 0 THEN Append(b, "-") ELSE b
             i1 == IF i < 0 THEN Wrap(-i) ELSE i
         IN  b1 \o IntDigits(i1, <<>>)

appendJSONFloat(b, f) ==
    IF f = 0
    THEN Append(b, "0")
    ELSE LET b1 == IF f < 0 THEN Append(b, "-") ELSE b
             f1 == IF f < 0 THEN -f ELSE f
             integer == Wrap(f1 \div FracUnit)
             fractional == f1 - (integer * FracUnit)
             b2 == appendInt(b1, integer)
         IN  IF fractional > 0
             THEN appendInt(Append(b2, "."), Wrap((fractional * 1000) \div FracUnit))
             ELSE b2

needsQuoting(s) == \E i \in 1..Len(s) : s[i] \in {" ", "=", Quote}

appendBool(b, v) == b \o (IF v THEN Bytes("true") ELSE Bytes("false"))

\* Mutant of UnknownText: the placeholder written as a bare word.
UnknownTextBare == Bytes("unknown")

\* appendValue's default case: '"', "unknown", '"'
UnknownText == (<<Quote>> \o Bytes("unknown")) \o <<Quote>>

appendValue(b, value) ==
    CASE value.t = "string" ->
            IF needsQuoting(value.v)
            THEN (Append(b, Quote) \o value.v) \o <<Quote>>
            ELSE b \o value.v
      [] value.t \in {"int", "int64"} -> appendInt(b, value.v)
      [] value.t = "float64" -> appendJSONFloat(b, value.v)
      [] value.t = "bool" -> appendBool(b, value.v)
      [] OTHER -> b \o UnknownText

\* One byte of appendJSONString's loop.
EscapeByte(r) ==
    CASE r = Quote -> <<Backslash, Quote>>
      [] r = Backslash -> <<Backslash, Backslash>>
      [] r = "\n" -> <<Backslash, "n">>
      [] r = "\r" -> <<Backslash, "r">>
      [] r = "\t" -> <<Backslash, "t">>
      [] OTHER -> <<r>>

RECURSIVE appendJSONString(_, _)
appendJSONString(b, s) ==
    IF s = <<>> THEN b ELSE appendJSONString(b \o EscapeByte(Head(s)), Tail(s))

appendJSONValue(b, value) ==
    CASE value.t = "string" ->
            Append(appendJSONString(Append(b, Quote), value.v), Quote)
      [] value.t \in {"int", "int64"} -> appendInt(b, value.v)
      [] value.t = "float64" -> appendJSONFloat(b, value.v)
      [] value.t = "bool" -> appendBool(b, value.v)
      [] OTHER ->
            Append(appendJSONString(Append(b, Quote), Bytes("unknown")), Quote)

----------------------------------------------------------------------------
(* Record encoder.  time.Now() is a fixed instant. *)

\* now.UTC().Format("2006-01-02T15:04:05.000Z07:00")
NowText == Bytes("2024-01-20T15:04:05.123Z")

\* now.Format(time.RFC3339Nano), in UTC or in the local zone
NowJSON(useUTC) ==
    IF useUTC
    THEN Bytes("2024-01-20T15:04:05.123456789Z")
    ELSE Bytes("2024-01-20T17:04:05.123456789+02:00")

RECURSIVE appendTextFields(_, _)
appendTextFields(b, fields) ==
    IF fields = <<>>
    THEN b
    ELSE appendTextFields(
             appendValue(Append(Append(b, " ") \o Head(fields).Key, "="),
                         Head(fields).Value),
             Tail(fields))

appendText(b, level, msg, fields) ==
    appendTextFields(
        (Append(Append(b \o NowText, " ") \o LevelString(level), " ")) \o msg,
        fields)

RECURSIVE appendJSONFields(_, _)
appendJSONFields(b, fields) ==
    IF fields = <<>>
    THEN b
    ELSE appendJSONFields(
             appendJSONValue(
                 appendJSONString(b \o <<",", Quote>>, Head(fields).Key)
                     \o <<Quote, ":">>,
                 Head(fields).Value),
             Tail(fields))

appendJSON(b, useUTC, level, msg, fields) ==
    LET b1 == Append(b, "{")
        b2 == Append((b1 \o Bytes("\"timestamp\":\"")) \o NowJSON(useUTC), Quote)
        b3 == Append((b2 \o Bytes(",\"level\":\"")) \o LevelString(level), Quote)
        b4 == Append(appendJSONString(b3 \o Bytes(",\"message\":\""), msg), Quote)
    IN  Append(appendJSONFields(b4, fields), "}")

----------------------------------------------------------------------------
(* Logger *)

\* make([]byte, 0, 256) in the pool's New
ScratchCap == 256

Capacities == {0, CapSmall, CapLarge}

Msgs == {Bytes("a")}

\* The minimum levels tried: the zero value of Config.Level, which filters
\* Debug, and Fatal, which filters all but Fatal and Panic.
MinLevels == {InfoLevel, FatalLevel}

Configs ==
    [Level : MinLevels, Format : Formats, BufferSize : Capacities,
     UseUTC : {TRUE}]

NoOp == [kind |-> "none", level |-> InfoLevel, msg |-> <<>>, fields |-> <<>>]

NoBuf == [arr |-> 0, len |-> 0]

NoSnap == [buffer |-> <<>>, nout |-> 0]

\* New(config): an empty accumulation buffer, a free mutex, an empty pool.
NewLogger(c) ==
    /\ config = c
    /\ buffer = <<>>
    /\ mu = 0
    /\ pool = {}
    /\ scratch = <<>>
    /\ out = <<>>
    /\ errs = {}
    /\ pc = [p \in Procs |-> "idle"]
    /\ op = [p \in Procs |-> NoOp]
    /\ buf = [p \in Procs |-> NoBuf]
    /\ deferred = [p \in Procs |-> NoBuf]
    /\ halted = FALSE
    /\ nops = 0
    /\ snap = [p \in Procs |-> NoSnap]
    /\ delivered = <<>>

EncIdle ==
    /\ encArg = "none"
    /\ encRes = <<>>
    /\ encPc = "off"

Init == (\E c \in Configs : NewLogger(c)) /\ EncIdle

\* The bytes of goroutine p's slice buf.
BufBytes(p) == SubSeq(scratch[buf[p].arr], 1, buf[p].len)

\* A new call takes the lowest slot that holds no call.
FreeSlot(p) == pc[p] = "idle" /\ \A q \in Procs : q < p => pc[q] # "idle"

\* Mutant of Filtered: the test written "<=", dropping calls at the minimum.
FilteredOrEqual(level, min) == level <= min

\* "if level < l.config.Level { return }"
Filtered(level, min) == level < min

\* The entry points Debug .. Panic: log(level, msg, fields...) up to its
\* level test.
Log(p, level, msg) ==
    /\ ~halted
    /\ FreeSlot(p)
    /\ nops < MaxOps
    /\ nops' = nops + 1
    /\ op' = [op EXCEPT ![p] = [kind |-> "log", level |-> level, msg |-> msg,
                                fields |-> <<>>]]
    /\ pc' = [pc EXCEPT ![p] = IF Filtered(level, config.Level) THEN "ret" ELSE "get"]
    /\ UNCHANGED <<config, buffer, mu, pool, scratch, out, buf, deferred, halted,
                   snap, delivered, errs, encVars>>

\* Mutant of PoolTake: a pool that keeps handing out a slice it handed out.
PoolTakeKeep(pl, x) == pl

\* sync.Pool.Get hands x out: x is no longer idle.
PoolTake(pl, x) == pl \ {x}

\* buf := l.pool.Get().([]byte); buf = buf[:0]; defer l.pool.Put(buf).
\* Get returns an idle slice or, at its choice, the result of New.
PoolGet(p) ==
    /\ ~halted
    /\ pc[p] = "get"
    /\ \/ \E x \in pool :
             /\ pool' = PoolTake(pool, x)
             /\ buf' = [buf EXCEPT ![p] = [x EXCEPT !.len = 0]]
             /\ scratch' = scratch
       \/ /\ scratch' = Append(scratch, <<>>)
          /\ buf' = [buf EXCEPT ![p] = [arr |-> Len(scratch) + 1, len |-> 0]]
          /\ pool' = pool
    /\ deferred' = [deferred EXCEPT ![p] = buf'[p]]
    /\ pc' = [pc EXCEPT ![p] = "encode"]
    /\ UNCHANGED <<config, buffer, mu, out, op, halted, nops, snap, delivered,
                   errs, encVars>>

\* The record log encodes into buf for the call c.
EncodeRecord(b, c) ==
    IF config.Format = JSONFormat
    THEN appendJSON(b, config.UseUTC, c.level, c.msg, c.fields)
    ELSE appendText(b, c.level, c.msg, c.fields)

\* The switch on l.config.Format in log.  The appends write into buf's
\* backing array; a record longer than its capacity moves to a new array.
Encode(p) ==
    /\ ~halted
    /\ pc[p] = "encode"
    /\ LET rec == EncodeRecord(BufBytes(p), op[p])
       IN  IF Len(rec) <= ScratchCap
           THEN /\ scratch' = [scratch EXCEPT ![buf[p].arr] = rec]
                /\ buf' = [buf EXCEPT ![p].len = Len(rec)]
           ELSE /\ scratch' = Append(scratch, rec)
                /\ buf' = [buf EXCEPT ![p] = [arr |-> Len(scratch) + 1,
                                              len |-> Len(rec)]]
    /\ pc' = [pc EXCEPT ![p] = IF config.BufferSize > 0 THEN "lock" ELSE "write"]
    /\ UNCHANGED <<config, buffer, mu, pool, out, op, deferred, halted, nops,
                   snap, delivered, errs, encVars>>

\* l.config.Output.Write(data): the sink receives one Write call.
SinkWrite(o, data) == Append(o, data)

\* write, unbuffered: _, _ = l.config.Output.Write(buf)
WriteRecord(p) ==
    /\ ~halted
    /\ pc[p] = "write"
    /\ out' = SinkWrite(out, BufBytes(p))
    /\ pc' = [pc EXCEPT ![p] = "writenl"]
    /\ UNCHANGED <<config, buffer, mu, pool, scratch, op, buf, deferred, halted,
                   nops, snap, delivered, errs, encVars>>

\* write, unbuffered: _, _ = l.config.Output.Write([]byte{'\n'})
WriteNewline(p) ==
    /\ ~halted
    /\ pc[p] = "writenl"
    /\ out' = SinkWrite(out, <<NL>>)
    /\ pc' = [pc EXCEPT ![p] = "put"]
    /\ UNCHANGED <<config, buffer, mu, pool, scratch, op, buf, deferred, halted,
                   nops, snap, delivered, errs, encVars>>

\* Mutant of OverCapacity: the test forgets what is already accumulated.
OverCapacityRecordOnly(acc, n, cap) == n > cap

\* "if len(l.buffer)+len(buf) > l.config.BufferSize"
OverCapacity(acc, n, cap) == Len(acc) + n > cap

\* l.mu.Lock() in write and in Flush; write then tests the threshold, Flush
\* calls flush.
Lock(p) ==
    /\ ~halted
    /\ pc[p] = "lock"
    /\ mu = 0
    /\ mu' = p
    /\ snap' = [snap EXCEPT ![p] = [buffer |-> buffer, nout |-> Len(out)]]
    /\ pc' = [pc EXCEPT ![p] =
                 IF op[p].kind = "log"
                    /\ ~OverCapacity(buffer, buf[p].len, config.BufferSize)
                 THEN "append"
                 ELSE "flush"]
    /\ UNCHANGED <<config, buffer, pool, scratch, out, op, buf, deferred, halted,
                   nops, delivered, errs, encVars>>

\* Mutant of AfterFlush: write returns after flush without its appends.
AfterFlushUnlock(p) == "unlock"

\* Where flush returns to: write goes on to its appends, Flush to its
\* deferred Unlock.
AfterFlush(p) == IF op[p].kind = "log" THEN "append" ELSE "unlock"

\* Mutant of FlushNeeded: flush writes whatever the buffer holds, even nothing.
FlushNeededAlways(acc) == TRUE

\* flush: "if len(l.buffer) > 0"
FlushNeeded(acc) == Len(acc) > 0

\* flush: "if len(l.buffer) > 0 { _, _ = l.config.Output.Write(l.buffer)"
FlushWrite(p) ==
    /\ ~halted
    /\ pc[p] = "flush"
    /\ IF FlushNeeded(buffer)
       THEN /\ out' = SinkWrite(out, buffer)
            /\ pc' = [pc EXCEPT ![p] = "reset"]
       ELSE /\ out' = out
            /\ pc' = [pc EXCEPT ![p] = AfterFlush(p)]
    /\ UNCHANGED <<config, buffer, mu, pool, scratch, op, buf, deferred, halted,
                   nops, snap, delivered, errs, encVars>>

\* Mutant of Truncate: the slice is not cut back.
TruncateKeep(b) == b

\* b[:0]
Truncate(b) == SubSeq(b, 1, 0)

\* flush: "l.buffer = l.buffer[:0]"
FlushReset(p) ==
    /\ ~halted
    /\ pc[p] = "reset"
    /\ buffer' = Truncate(buffer)
    /\ pc' = [pc EXCEPT ![p] = AfterFlush(p)]
    /\ UNCHANGED <<config, mu, pool, scratch, out, op, buf, deferred, halted,
                   nops, snap, delivered, errs, encVars>>

\* write, buffered: l.buffer = append(l.buffer, buf...);
\* l.buffer = append(l.buffer, '\n')
AppendRecord(p) ==
    /\ ~halted
    /\ pc[p] = "append"
    /\ buffer' = Append(buffer \o BufBytes(p), NL)
    /\ delivered' = Append(delivered, BufBytes(p))
    /\ pc' = [pc EXCEPT ![p] = "unlock"]
    /\ UNCHANGED <<config, mu, pool, scratch, out, op, buf, deferred, halted,
                   nops, snap, errs, encVars>>

\* The deferred l.mu.Unlock() of write and of Flush.
Unlock(p) ==
    /\ ~halted
    /\ pc[p] = "unlock"
    /\ mu' = 0
    /\ pc' = [pc EXCEPT ![p] = IF op[p].kind = "log" THEN "put" ELSE "ret"]
    /\ UNCHANGED <<config, buffer, pool, scratch, out, op, buf, deferred, halted,
                   nops, snap, delivered, errs, encVars>>

\* sync.Pool.Put(x): x is idle again.
PoolGive(pl, x) == pl \cup {x}

\* The deferred l.pool.Put(buf) of log, run when log returns.
PoolPut(p) ==
    /\ ~halted
    /\ pc[p] = "put"
    /\ pool' = PoolGive(pool, deferred[p])
    /\ pc' = [pc EXCEPT ![p] = "ret"]
    /\ UNCHANGED <<config, buffer, mu, scratch, out, op, buf, deferred, halted,
                   nops, snap, delivered, errs, encVars>>

\* Fatal: l.log(FatalLevel, ...); os.Exit(1)
Exits(c) == c.kind = "log" /\ c.level = FatalLevel

\* Panic: l.log(PanicLevel, ...); panic(msg)
Panics(c) == c.kind = "log" /\ c.level = PanicLevel

\* Mutant of AtReturn: the entry point goes on while log's deferred
\* pool.Put has not run yet.
AtReturnOrPut(p) == pc[p] \in {"ret", "put"}

\* l.log(...) has returned (its deferred calls have run), or Flush is at
\* its end: the statement after the call runs next.
AtReturn(p) == pc[p] = "ret"

\* log has returned to its entry point, or Flush returns: Fatal calls
\* os.Exit(1), Panic panics, the others return and the call's locals are gone.
Return(p) ==
    /\ ~halted
    /\ AtReturn(p)
    /\ pc' = [pc EXCEPT ![p] =
                 CASE Exits(op[p]) -> "exited"
                   [] Panics(op[p]) -> "panicked"
                   [] OTHER -> "idle"]
    /\ halted' = Exits(op[p])
    /\ op' = [op EXCEPT ![p] = IF Exits(op[p]) \/ Panics(op[p]) THEN op[p] ELSE NoOp]
    /\ buf' = [buf EXCEPT ![p] = NoBuf]
    /\ deferred' = [deferred EXCEPT ![p] = NoBuf]
    /\ snap' = [snap EXCEPT ![p] = NoSnap]
    /\ UNCHANGED <<config, buffer, mu, pool, scratch, out, nops, delivered, errs, encVars>>

\* Flush: "if l.config.BufferSize > 0 { l.mu.Lock() ..."
Flush(p) ==
    /\ ~halted
    /\ FreeSlot(p)
    /\ nops < MaxOps
    /\ nops' = nops + 1
    /\ op' = [op EXCEPT ![p] = [NoOp EXCEPT !.kind = "flush"]]
    /\ pc' = [pc EXCEPT ![p] = IF config.BufferSize > 0 THEN "lock" ELSE "ret"]
    /\ UNCHANGED <<config, buffer, mu, pool, scratch, out, buf, deferred, halted,
                   snap, delivered, errs, encVars>>

Next ==
    \E p \in Procs :
        \/ \E level \in Levels, msg \in Msgs : Log(p, level, msg)
        \/ PoolGet(p)
        \/ Encode(p)
        \/ WriteRecord(p)
        \/ WriteNewline(p)
        \/ Lock(p)
        \/ FlushWrite(p)
        \/ FlushReset(p)
        \/ AppendRecord(p)
        \/ Unlock(p)
        \/ PoolPut(p)
        \/ Return(p)
        \/ Flush(p)

Spec == Init /\ [][Next]_vars

----------------------------------------------------------------------------
(* A sink whose Write can return an error *)

\* Mutant of OnWriteError: the failed write is made again.
OnWriteErrorRetry(here, next) == here

\* "_, _ = l.config.Output.Write(...)": both results are discarded and the
\* statement after the write runs.
OnWriteError(here, next) == next

\* The sink received the Write call and answered with an error.
SinkFail(e, o) == e \cup {Len(o) + 1}

\* write, unbuffered: _, _ = l.config.Output.Write(buf), the sink failing
WriteRecordErr(p) ==
    /\ ~halted
    /\ pc[p] = "write"
    /\ Cardinality(errs) < MaxErrs
    /\ out' = SinkWrite(out, BufBytes(p))
    /\ errs' = SinkFail(errs, out)
    /\ pc' = [pc EXCEPT ![p] = OnWriteError("write", "writenl")]
    /\ UNCHANGED <<config, buffer, mu, pool, scratch, op, buf, deferred, halted,
                   nops, snap, delivered, encVars>>

\* write, unbuffered: _, _ = l.config.Output.Write([]byte{'\n'}), the sink
\* failing
WriteNewlineErr(p) ==
    /\ ~halted
    /\ pc[p] = "writenl"
    /\ Cardinality(errs) < MaxErrs
    /\ out' = SinkWrite(out, <<NL>>)
    /\ errs' = SinkFail(errs, out)
    /\ pc' = [pc EXCEPT ![p] = OnWriteError("writenl", "put")]
    /\ UNCHANGED <<config, buffer, mu, pool, scratch, op, buf, deferred, halted,
                   nops, snap, delivered, encVars>>

\* flush: "if len(l.buffer) > 0 { _, _ = l.config.Output.Write(l.buffer)",
\* the sink failing
FlushWriteErr(p) ==
    /\ ~halted
    /\ pc[p] = "flush"
    /\ FlushNeeded(buffer)
    /\ Cardinality(errs) < MaxErrs
    /\ out' = SinkWrite(out, buffer)
    /\ errs' = SinkFail(errs, out)
    /\ pc' = [pc EXCEPT ![p] = OnWriteError("flush", "reset")]
    /\ UNCHANGED <<config, buffer, mu, pool, scratch, op, buf, deferred, halted,
                   nops, snap, delivered, encVars>>

NextFail ==
    \/ Next
    \/ \E p \in Procs :
          \/ WriteRecordErr(p)
          \/ WriteNewlineErr(p)
          \/ FlushWriteErr(p)

\* The Loggers tried with a failing sink: each capacity, the text format,
\* the zero value of Config.Level.
FailConfigs == {c \in Configs : c.Level = InfoLevel /\ c.Format = TextFormat}

InitFail == (\E c \in FailConfigs : NewLogger(c)) /\ EncIdle

SpecFail == InitFail /\ [][NextFail]_vars

----------------------------------------------------------------------------
(* Helpers of the properties *)

RECURSIVE Flatten(_)
Flatten(ss) == IF ss = <<>> THEN <<>> ELSE Head(ss) \o Flatten(Tail(ss))

RECURSIVE SumLen(_)
SumLen(ss) == IF ss = <<>> THEN 0 ELSE Len(Head(ss)) + SumLen(Tail(ss))

Contains(hay, needle) ==
    \E i \in 0..(Len(hay) - Len(needle)) : SubSeq(hay, i + 1, i + Len(needle)) = needle

\* Every byte handed to the sink or waiting in the accumulation buffer.
AllBytes == Flatten(out) \o buffer

\* The record the call c must produce.
RecordOf(c) == EncodeRecord(<<>>, c)

IsLog(p) == op[p].kind = "log"

IsFlush(p) == op[p].kind = "flush"

\* p's log call is between its pool.Get and its pool.Put.
Holding(p) ==
    pc[p] \in {"encode", "write", "writenl", "lock", "flush", "reset", "append",
               "unlock", "put"} /\ IsLog(p)

\* The step is one of goroutine p.
StepOf(p) == pc'[p] # pc[p]

----------------------------------------------------------------------------
(* C1 *)

\* C1: a log call below the configured minimum level writes nothing to the
\* sink, takes nothing from the pool and leaves the accumulation buffer
\* alone: every step that changes the sink, the pool, a scratch array or
\* the accumulation buffer is a step of a Flush or of a log call at or above
\* the minimum, and a filtered call goes straight to its return.  A log call
\* at or above the minimum has, when it returns, its encoded record in the
\* sink or in the accumulation buffer.
C1_LevelFilter ==
    /\ [][(out' # out \/ pool' # pool \/ scratch' # scratch \/ buffer' # buffer)
            => \E p \in Procs :
                  /\ StepOf(p)
                  /\ IsFlush(p) \/ (IsLog(p) /\ op[p].level >= config.Level)]_vars
    /\ [][\A p \in Procs :
            (pc[p] = "idle" /\ StepOf(p) /\ op'[p].kind = "log"
               /\ op'[p].level < config.Level)
            => /\ pc'[p] = "ret"
               /\ UNCHANGED <<out, pool, scratch, buffer, mu, buf, deferred>>]_vars
    /\ [](\A p \in Procs :
            (pc[p] = "ret" /\ IsLog(p) /\ op[p].level >= config.Level)
            => Contains(AllBytes, RecordOf(op[p])))

\* A filtered call at its return, nothing written, in each mode.
C1_Witness ==
    \E p \in Procs :
        /\ pc[p] = "ret" /\ IsLog(p)
        /\ op[p].level < config.Level
        /\ out = <<>> /\ buffer = <<>> /\ scratch = <<>>
        /\ config.BufferSize > 0

----------------------------------------------------------------------------
(* C2 *)

\* p's buffered delivery has done its appends and still holds the lock.
DeliveryDone(p) == pc[p] = "unlock" /\ IsLog(p)

\* The sink writes made since p took the lock.
WritesSinceLock(p) == SubSeq(out, snap[p].nout + 1, Len(out))

\* C2: in buffered mode, a delivery of record r that found the accumulation
\* buffer acc: if len(acc) + len(r) > capacity, acc went to the sink (one
\* write of all of acc, none when acc was empty) and the buffer is r and a
\* newline; otherwise no sink write was made and the buffer is acc, r and a
\* newline.  r is whole in both cases.
C2_DeliverBuffered ==
    \A p \in Procs :
        DeliveryDone(p) =>
            LET acc == snap[p].buffer
                r == RecordOf(op[p])
            IN  IF Len(acc) + Len(r) > config.BufferSize
                THEN /\ buffer = Append(r, NL)
                     /\ WritesSinceLock(p) = IF acc = <<>> THEN <<>> ELSE <<acc>>
                ELSE /\ buffer = Append(acc \o r, NL)
                     /\ WritesSinceLock(p) = <<>>

\* A record longer than the capacity was appended whole after the records
\* before it were flushed.
C2_Witness ==
    \E p \in Procs :
        /\ DeliveryDone(p)
        /\ snap[p].buffer # <<>>
        /\ buf[p].len > config.BufferSize
        /\ buffer = Append(RecordOf(op[p]), NL)
        /\ out = <<snap[p].buffer>>

----------------------------------------------------------------------------
(* C3 *)

\* p's Flush has run flush and still holds the lock.
FlushDone(p) == pc[p] = "unlock" /\ IsFlush(p)

\* C3: a Flush in buffered mode that found a non-empty accumulation buffer
\* made exactly one sink write, of all of it, and left it empty; one that
\* found it empty made no sink write; in unbuffered mode no step of a Flush
\* changes the sink, the buffer, the lock or the pool.
C3_Flush ==
    /\ [](\A p \in Procs :
            FlushDone(p) =>
                /\ buffer = <<>>
                /\ WritesSinceLock(p) =
                       IF snap[p].buffer = <<>> THEN <<>> ELSE <<snap[p].buffer>>)
    /\ [][\A p \in Procs :
            (config.BufferSize = 0 /\ StepOf(p) /\ (IsFlush(p) \/ op'[p].kind = "flush"))
            => UNCHANGED <<out, buffer, mu, pool, scratch>>]_vars

\* A Flush that wrote a non-empty buffer.
C3_Witness ==
    \E p \in Procs :
        /\ FlushDone(p)
        /\ snap[p].buffer # <<>>
        /\ out = <<snap[p].buffer>>
        /\ buffer = <<>>

\* A Flush that found the buffer empty, after an earlier Flush emptied it.
C3_WitnessEmpty ==
    \E p \in Procs : FlushDone(p) /\ snap[p].buffer = <<>> /\ nops = 2

----------------------------------------------------------------------------
(* C4 *)

LastLen(ss) == IF ss = <<>> THEN 0 ELSE Len(ss[Len(ss)])

\* The accumulation buffer holds at most capacity bytes plus one record and
\* its newline.
BufferBounded == Len(buffer) <= config.BufferSize + LastLen(delivered) + 1

\* C4, as claimed: in buffered mode, once N >= 1 deliveries of total encoded
\* size above the capacity are done, the sink has received a write; and the
\* accumulation buffer never exceeds the capacity plus one record with its
\* newline.
C4_Original ==
    /\ (config.BufferSize > 0 /\ Len(delivered) >= 1
          /\ SumLen(delivered) > config.BufferSize) => Len(out) >= 1
    /\ BufferBounded

\* C4, amended: the same for N >= 2 deliveries.
C4_FlushByCapacity ==
    /\ (config.BufferSize > 0 /\ Len(delivered) >= 2
          /\ SumLen(delivered) > config.BufferSize) => Len(out) >= 1
    /\ BufferBounded

\* Two deliveries, each below the capacity, together above it: one flush.
C4_Witness ==
    /\ config.BufferSize > 0
    /\ Len(delivered) = 2
    /\ Len(delivered[1]) < config.BufferSize
    /\ Len(delivered[2]) < config.BufferSize
    /\ SumLen(delivered) > config.BufferSize
    /\ out = <<Append(delivered[1], NL)>>
    /\ buffer = Append(delivered[2], NL)

----------------------------------------------------------------------------
(* C5 *)

\* C5: on an unbuffered Logger every record written to the sink is
\* immediately followed by a newline: no write of another call comes
\* between a record and its newline.
C5_RecordThenNewline ==
    config.BufferSize = 0 =>
        \A i \in 1..(Len(out) - 1) : out[i] # <<NL>> => out[i + 1] = <<NL>>

----------------------------------------------------------------------------
(* C6 *)

\* C6: two log calls in flight never hold the same scratch array, an array
\* a call holds is not idle in the pool, the slice a call got from the pool
\* has length 0 until it encodes, a scratch array is written only by the
\* call that holds it, and a call that has released its array touches no
\* scratch array, the sink, the accumulation buffer or the pool any more.
C6_ScratchExclusive ==
    /\ [](\A p \in Procs :
            Holding(p) =>
                /\ \A q \in Procs \ {p} : Holding(q) => deferred[q].arr # deferred[p].arr
                /\ \A x \in pool : x.arr # deferred[p].arr
                /\ pc[p] = "encode" => buf[p].len = 0 /\ BufBytes(p) = <<>>)
    /\ [](\A x \in pool : x.len = 0)
    /\ [][\A a \in DOMAIN scratch :
            scratch'[a] # scratch[a]
            => \E p \in Procs : Holding(p) /\ StepOf(p) /\ deferred[p].arr = a]_vars
    /\ [][\A p \in Procs :
            (StepOf(p) /\ IsLog(p) /\ pc[p] = "ret")
            => UNCHANGED <<scratch, out, buffer, pool>>]_vars

\* Two calls in flight at once, each with its own array.
C6_Witness ==
    /\ Holding(1) /\ Holding(2)
    /\ deferred[1].arr # deferred[2].arr
    /\ pc[1] = "put" /\ pc[2] = "put"

----------------------------------------------------------------------------
(* C11 *)

\* p's call in buffered mode has done its work and still holds the lock.
LockedDone(p) == pc[p] = "unlock"

\* What the accumulation buffer must hold once p's call is done, given the
\* buffer acc it found: a Flush leaves nothing, a delivery of r leaves r and
\* a newline, after acc when both fit the capacity.
BufferAfter(p, acc) ==
    IF IsFlush(p)
    THEN <<>>
    ELSE LET r == RecordOf(op[p])
         IN  IF Len(acc) + Len(r) > config.BufferSize
             THEN Append(r, NL)
             ELSE Append(acc \o r, NL)

\* The sink writes p's call must have made once it is done: one write of
\* all of acc when a non-empty acc had to go, none otherwise.
WritesAfter(p, acc) ==
    IF acc # <<>> /\ (IsFlush(p) \/ Len(acc) + Len(RecordOf(op[p])) > config.BufferSize)
    THEN <<acc>>
    ELSE <<>>

\* C11: with a sink whose writes may fail, a failing write changes nothing
\* but the sink and the position of the goroutine that made it, which goes
\* on to the statement a successful write leads to; in buffered mode a
\* delivery or Flush ends with the buffer and the sink writes a never-failing
\* sink gives (the flushed bytes written once, the buffer reset); in
\* unbuffered mode the record write is made once and the newline write
\* follows it, made once; and only Fatal exits and only Panic panics.
C11_ErrorsDropped ==
    /\ [][errs' # errs
            => /\ \E p \in Procs :
                     /\ StepOf(p)
                     /\ \A q \in Procs \ {p} : pc'[q] = pc[q]
                     /\ \/ pc[p] = "write" /\ pc'[p] = "writenl"
                        \/ pc[p] = "writenl" /\ pc'[p] = "put"
                        \/ pc[p] = "flush" /\ pc'[p] = "reset"
               /\ Len(out') = Len(out) + 1
               /\ errs' = errs \cup {Len(out')}
               /\ UNCHANGED <<config, buffer, mu, pool, scratch, op, buf,
                              deferred, halted, nops, delivered>>]_vars
    /\ [](\A p \in Procs :
            LockedDone(p) =>
                /\ buffer = BufferAfter(p, snap[p].buffer)
                /\ WritesSinceLock(p) = WritesAfter(p, snap[p].buffer))
    /\ [][\A p \in Procs :
            /\ (StepOf(p) /\ pc[p] = "write")
                 => pc'[p] = "writenl" /\ out' = Append(out, BufBytes(p))
            /\ (StepOf(p) /\ pc[p] = "writenl")
                 => pc'[p] = "put" /\ out' = Append(out, <<NL>>)
            /\ (StepOf(p) /\ pc[p] = "reset") => buffer' = <<>>]_vars
    /\ [](\A p \in Procs :
            /\ pc[p] = "exited" => Exits(op[p])
            /\ pc[p] = "panicked" => Panics(op[p]))
    /\ [](halted => \E p \in Procs : pc[p] = "exited")

\* A buffered delivery whose flush write failed: the old contents were
\* handed to the sink once, the buffer holds the new record alone.
C11_Witness ==
    \E p \in Procs :
        /\ LockedDone(p) /\ IsLog(p)
        /\ snap[p].buffer # <<>>
        /\ errs = {1}
        /\ out = <<snap[p].buffer>>
        /\ buffer = Append(RecordOf(op[p]), NL)

\* An unbuffered call whose record write failed, returned, the newline
\* written after it.
C11_WitnessUnbuffered ==
    \E p \in Procs :
        /\ config.BufferSize = 0
        /\ pc[p] = "ret" /\ IsLog(p)
        /\ errs = {1}
        /\ out = <<RecordOf(op[p]), <<NL>>>>

\* A Flush whose write failed, returned to its caller: the buffer is empty.
C11_WitnessFlush ==
    \E p \in Procs :
        /\ pc[p] = "ret" /\ IsFlush(p)
        /\ errs = {1}
        /\ Len(out) = 1
        /\ buffer = <<>>

----------------------------------------------------------------------------
(* C12 *)

\* p's call is a Fatal or a Panic that passes the level test.
Terminating(p) ==
    /\ IsLog(p)
    /\ op[p].level \in {FatalLevel, PanicLevel}
    /\ op[p].level >= config.Level

\* The record r of a call has been delivered: unbuffered, the sink got a
\* write of r and, after it, a write of a newline; buffered, r and a
\* newline were appended to the accumulation buffer (and are in it or in
\* what it has flushed since).
Delivered(r) ==
    IF config.BufferSize = 0
    THEN \E i \in 1..Len(out) : \E j \in (i + 1)..Len(out) :
            out[i] = r /\ out[j] = <<NL>>
    ELSE /\ \E i \in 1..Len(delivered) : delivered[i] = r
         /\ Contains(AllBytes, Append(r, NL))

\* C12: os.Exit(1) and panic(msg) are reached only from the return of log,
\* by Fatal and by Panic respectively; an unfiltered Fatal or Panic reaches
\* the return of log only through its deferred pool.Put, which puts its
\* scratch slice back in the pool; and at the return of log its record is
\* delivered, so it is when the process exits or the goroutine panics.
\* When it is the only call made, the sink holds exactly the record and a
\* newline (unbuffered) or the accumulation buffer does (buffered).
C12_TerminateAfterDelivery ==
    /\ [][\A p \in Procs :
            (StepOf(p) /\ pc'[p] \in {"exited", "panicked"})
            => /\ pc[p] = "ret" /\ Terminating(p)
               /\ pc'[p] = "exited" <=> op[p].level = FatalLevel
               /\ halted' <=> op[p].level = FatalLevel
               /\ UNCHANGED <<out, buffer, pool, scratch, mu>>]_vars
    /\ [][\A p \in Procs :
            (StepOf(p) /\ pc'[p] = "ret" /\ Terminating(p))
            => /\ pc[p] = "put"
               /\ deferred[p] \in pool'
               /\ deferred[p].arr = buf[p].arr
               /\ mu' # p]_vars
    /\ [](\A p \in Procs :
            (Terminating(p) /\ pc[p] \in {"ret", "exited", "panicked"})
            => /\ Delivered(RecordOf(op[p]))
               /\ mu # p
               /\ nops = 1 =>
                    IF config.BufferSize = 0
                    THEN out = <<RecordOf(op[p]), <<NL>>>> /\ buffer = <<>>
                    ELSE out = <<>> /\ buffer = Append(RecordOf(op[p]), NL))

\* An unbuffered Fatal, the only call made, has exited: the sink holds the
\* record and the newline, the scratch slice is back in the pool.
C12_Witness ==
    \E p \in Procs :
        /\ pc[p] = "exited" /\ halted
        /\ op[p].level = FatalLevel
        /\ config.BufferSize = 0
        /\ out = <<RecordOf(op[p]), <<NL>>>>
        /\ pool = {[arr |-> 1, len |-> 0]}

\* A buffered Panic has panicked: the record and its newline are in the
\* accumulation buffer, nothing was written to the sink.
C12_WitnessPanic ==
    \E p \in Procs :
        /\ pc[p] = "panicked"
        /\ op[p].level = PanicLevel
        /\ config.BufferSize > 0
        /\ buffer = Append(RecordOf(op[p]), NL)
        /\ out = <<>>
        /\ pool # {}

----------------------------------------------------------------------------
(* C13 *)

\* Each record of rs followed by one newline.
Lines(rs) == [i \in 1..Len(rs) |-> Append(rs[i], NL)]

\* data is one or more consecutive delivered records, each whole and with
\* its newline.
WholeRecords(data) ==
    \E a \in 1..Len(delivered) : \E b \in a..Len(delivered) :
        data = Flatten(SubSeq(Lines(delivered), a, b))

\* C13: on a buffered Logger: whenever the lock is free, the bytes written
\* to the sink followed by the accumulation buffer are the delivered
\* records, in the order the deliveries held the lock, each followed by one
\* newline; every sink write is a run of whole delivered records with their
\* newlines; the record list grows only by a delivery that holds the lock
\* appending its own record, and a delivery about to release the lock has
\* its record last in the list.
C13_NothingLostOrSplit ==
    /\ []((config.BufferSize > 0 /\ mu = 0)
            => AllBytes = Flatten(Lines(delivered)))
    /\ [](config.BufferSize > 0
            => \A k \in 1..Len(out) : WholeRecords(out[k]))
    /\ [](\A p \in Procs :
            DeliveryDone(p) =>
                /\ mu = p
                /\ delivered # <<>>
                /\ delivered[Len(delivered)] = RecordOf(op[p])
                /\ AllBytes = Flatten(Lines(delivered)))
    /\ [][delivered' # delivered
            => \E p \in Procs :
                  /\ mu = p /\ IsLog(p) /\ StepOf(p)
                  /\ delivered' = Append(delivered, RecordOf(op[p]))]_vars
    /\ [][\A p \in Procs :
            (config.BufferSize > 0 /\ StepOf(p) /\ IsLog(p) /\ pc'[p] = "put")
            => DeliveryDone(p)]_vars

\* Two concurrent deliveries of different records, the lock free again: the
\* first went to the sink in one write when the second crossed the
\* capacity, the second is in the accumulation buffer.
C13_Witness ==
    /\ config.BufferSize > 0
    /\ mu = 0
    /\ Len(delivered) = 2
    /\ delivered[1] # delivered[2]
    /\ out = <<Append(delivered[1], NL)>>
    /\ buffer = Append(delivered[2], NL)
    /\ \A p \in Procs : IsLog(p) /\ pc[p] = "put"

\* A delivery and an explicit Flush, the lock free again: the record is in
\* the sink, the accumulation buffer is empty.
C13_WitnessFlush ==
    /\ config.BufferSize > 0
    /\ mu = 0
    /\ Len(delivered) = 1
    /\ out = <<Append(delivered[1], NL)>>
    /\ buffer = <<>>
    /\ \E p \in Procs : IsFlush(p) /\ pc[p] = "ret"

\* The same bytes are in the sink and in the accumulation buffer while a
\* flush holds the lock between its write and its reset.
C13_WitnessLocked ==
    /\ mu # 0
    /\ buffer # <<>>
    /\ out = <<buffer>>
    /\ AllBytes # Flatten(Lines(delivered))

----------------------------------------------------------------------------
(* Encoder harnesses: the input is drawn in the initial state, the one     *)
(* action runs the encoder on it.  The Logger is a fresh, unused one.      *)

IdleConfig ==
    [Level |-> InfoLevel, Format |-> JSONFormat, BufferSize |-> 0, UseUTC |-> TRUE]

\* The buffers an encoder is asked to append to.
Prefixes == {<<>>, Bytes("k=")}

EncStart(args) ==
    /\ NewLogger(IdleConfig)
    /\ encArg \in args
    /\ encRes = <<>>
    /\ encPc = "in"

EncFinish(res) ==
    /\ encPc = "in"
    /\ encRes' = res
    /\ encPc' = "done"
    /\ UNCHANGED <<encArg, loggerVars>>

\* strconv's base-10 text of the integer n: FormatInt(n, 10).
RECURSIVE NatText(_)
NatText(n) == IF n < 10 THEN <<DigitByte(n)>> ELSE Append(NatText(n \div 10), DigitByte(n % 10))

FormatInt(n) == IF n < 0 THEN <<"-">> \o NatText(-n) ELSE NatText(n)

(* appendInt *)

IntArgs == [b : Prefixes, v : MinInt..MaxInt]

ApplyInt == EncFinish(appendInt(encArg.b, encArg.v))

SpecInt == EncStart(IntArgs) /\ [][ApplyInt]_vars

\* C8: for every int64, appendInt appends the text base-10 formatting gives.
C8_IntMatchesStd ==
    encPc = "done" => encRes = encArg.b \o FormatInt(encArg.v)

\* appendInt agrees with base-10 formatting on every int64 but the least.
C8_AllButMinInt ==
    (encPc = "done" /\ encArg.v # MinInt) => encRes = encArg.b \o FormatInt(encArg.v)

(* appendJSONFloat *)

MaxFloat == ((MaxIntPart + 1) * FracUnit) - 1

FloatArgs == [b : {<<>>}, v : (-MaxFloat)..MaxFloat]

ApplyFloat == EncFinish(appendJSONFloat(encArg.b, encArg.v))

SpecFloat == EncStart(FloatArgs) /\ [][ApplyFloat]_vars

IsDigit(c) == \E d \in 0..9 : DigitByte(d) = c

DigitVal(c) == CHOOSE d \in 0..9 : DigitByte(d) = c

\* The position of the first c in s, 0 if there is none.
IndexOf(s, c) ==
    IF \E i \in 1..Len(s) : s[i] = c
    THEN CHOOSE i \in 1..Len(s) : s[i] = c /\ \A j \in 1..(i - 1) : s[j] # c
    ELSE 0

\* The number of thousandths the fraction digits ds (at most three) denote:
\* "5" is 500, "05" is 50, "141" is 141; -1 if ds is no such digit string.
MilliOf(ds) ==
    IF Len(ds) \in 1..3 /\ \A i \in 1..Len(ds) : IsDigit(ds[i])
    THEN (DigitVal(ds[1]) * 100)
         + (IF Len(ds) >= 2 THEN DigitVal(ds[2]) * 10 ELSE 0)
         + (IF Len(ds) >= 3 THEN DigitVal(ds[3]) ELSE 0)
    ELSE -1

\* C10: the text appendJSONFloat gives for the fixed-point number
\* v / FracUnit: "0" for zero; else a '-' if v is negative, the integer
\* part in base 10 and, if the fractional part is not zero, a '.' and
\* digits that denote the fraction truncated to thousandths.
C10_FloatTruncates ==
    encPc = "done" =>
        IF encArg.v = 0
        THEN encRes = <<"0">>
        ELSE LET a == IF encArg.v < 0 THEN -encArg.v ELSE encArg.v
                 text == IF encArg.v < 0 THEN Tail(encRes) ELSE encRes
                 dot == IndexOf(text, ".")
                 intText == IF dot = 0 THEN text ELSE SubSeq(text, 1, dot - 1)
                 fracText == IF dot = 0 THEN <<>> ELSE SubSeq(text, dot + 1, Len(text))
             IN  /\ encArg.v < 0 => (encRes # <<>> /\ Head(encRes) = "-")
                 /\ intText = FormatInt(a \div FracUnit)
                 /\ IF a % FracUnit = 0
                    THEN dot = 0
                    ELSE dot > 0 /\ MilliOf(fracText) = ((a % FracUnit) * 1000) \div FracUnit

\* The same, for the numbers whose fraction is zero or at least one tenth.
C10_NoLeadingZero ==
    (encPc = "done" /\ encArg.v # 0
        /\ LET f == (IF encArg.v < 0 THEN -encArg.v ELSE encArg.v) % FracUnit
           IN  f = 0 \/ f * 10 >= FracUnit)
    => C10_FloatTruncates

(* appendValue, appendJSONValue *)

ValueBytes == {"a", " ", "=", Quote, Backslash, NL, "\r", "\t", "\f"}

Strings(alphabet, n) == UNION {[1..k -> alphabet] : k \in 0..n}

IntSamples == {MinInt, -120, -1, 0, 7, 10, 305, MaxInt}

FloatSamples == {0, FracUnit, -FracUnit, (3 * FracUnit) + (FracUnit \div 2), 1 - FracUnit}

Values ==
    [t : {"string"}, v : Strings(ValueBytes, MaxStrLen)]
        \cup [t : {"int", "int64"}, v : IntSamples]
        \cup [t : {"float64"}, v : FloatSamples]
        \cup [t : {"bool"}, v : BOOLEAN]
        \cup {[t |-> "other"]}

ValueArgs == [b : Prefixes, mode : Formats, value : Values]

ApplyTextValue ==
    /\ encArg.mode = TextFormat
    /\ EncFinish(appendValue(encArg.b, encArg.value))

ApplyJSONValue ==
    /\ encArg.mode = JSONFormat
    /\ EncFinish(appendJSONValue(encArg.b, encArg.value))

NextValue == ApplyTextValue \/ ApplyJSONValue

SpecValue == EncStart(ValueArgs) /\ [][NextValue]_vars

\* A text-mode string value is written in quotes if and only if it holds a
\* space, '=' or '"'.
TextQuotingRule ==
    (encPc = "done" /\ encArg.mode = TextFormat /\ encArg.value.t = "string") =>
        LET v == encArg.value.v
        IN  encRes = encArg.b \o
               (IF \E i \in 1..Len(v) : v[i] \in {" ", "=", Quote}
                THEN <<Quote>> \o v \o <<Quote>>
                ELSE v)

\* C9, as claimed: a value of an unsupported type is written as "unknown"
\* in quotes in JSON mode and as unknown without quotes in text mode, where
\* a string is quoted only if it holds a space, '=' or '"'.
C9_Original ==
    /\ (encPc = "done" /\ encArg.value.t = "other") =>
           encRes = encArg.b \o
              (IF encArg.mode = JSONFormat
               THEN Bytes("\"unknown\"")
               ELSE Bytes("unknown"))
    /\ TextQuotingRule

\* C9, amended: a value of an unsupported type is written as "unknown" in
\* quotes in both modes; the text-mode quoting rule holds of string values.
C9_UnknownQuoted ==
    /\ (encPc = "done" /\ encArg.value.t = "other") =>
           encRes = encArg.b \o Bytes("\"unknown\"")
    /\ TextQuotingRule

\* A value of an unsupported type, encoded in text mode.
C9_Witness ==
    /\ encPc = "done"
    /\ encArg.value.t = "other"
    /\ encArg.mode = TextFormat
    /\ encRes = encArg.b \o Bytes("\"unknown\"")

----------------------------------------------------------------------------
(* appendJSON *)

JSONBytes == {"a", Quote, Backslash, NL, "\r", "\t", "\f"}

JSONStrings == Strings(JSONBytes, MaxStrLen)

StringFields == [Key : JSONStrings, Value : [t : {"string"}, v : JSONStrings]]

FieldSeqs == UNION {[1..k -> StringFields] : k \in 0..MaxFields}

JSONArgs == [utc : BOOLEAN, level : {InfoLevel}, msg : JSONStrings, fields : FieldSeqs]

ApplyJSON ==
    EncFinish(appendJSON(<<>>, encArg.utc, encArg.level, encArg.msg, encArg.fields))

SpecJSON == EncStart(JSONArgs) /\ [][ApplyJSON]_vars

(* A reader of the JSON texts (RFC 8259) that are one object whose values
   are strings, with no white space between the tokens. *)

NoParse == [ok |-> FALSE, next |-> 0, val |-> <<>>]

\* The escapes of a JSON string, less \b and \uXXXX, which the encoder
\* never writes.
Unescaped(c) ==
    CASE c = Quote -> Quote
      [] c = Backslash -> Backslash
      [] c = "/" -> "/"
      [] c = "n" -> NL
      [] c = "r" -> "\r"
      [] c = "t" -> "\t"
      [] c = "f" -> "\f"
      [] OTHER -> ""

\* The characters of a JSON string from position j up to its closing quote;
\* a control character must not appear unescaped.
RECURSIVE ReadChars(_, _, _)
ReadChars(s, j, acc) ==
    IF j > Len(s) THEN NoParse
    ELSE IF s[j] = Quote THEN [ok |-> TRUE, next |-> j + 1, val |-> acc]
    ELSE IF s[j] = Backslash
         THEN IF j + 1 <= Len(s) /\ Unescaped(s[j + 1]) # ""
              THEN ReadChars(s, j + 2, Append(acc, Unescaped(s[j + 1])))
              ELSE NoParse
    ELSE IF s[j] \in ControlBytes THEN NoParse
    ELSE ReadChars(s, j + 1, Append(acc, s[j]))

\* The JSON string that starts at position i.
ReadString(s, i) ==
    IF i <= Len(s) /\ s[i] = Quote THEN ReadChars(s, i + 1, <<>>) ELSE NoParse

NoObject == [ok |-> FALSE, keys |-> <<>>, vals |-> <<>>]

\* The members "key":"value" from position i, separated by ',' and closed
\* by a '}' that ends the text.
RECURSIVE ReadMembers(_, _, _, _)
ReadMembers(s, i, keys, vals) ==
    LET k == ReadString(s, i)
    IN  IF ~k.ok \/ k.next > Len(s) \/ s[k.next] # ":" THEN NoObject
        ELSE LET v == ReadString(s, k.next + 1)
             IN  IF ~v.ok \/ v.next > Len(s) THEN NoObject
                 ELSE IF s[v.next] = "}"
                      THEN IF v.next = Len(s)
                           THEN [ok |-> TRUE, keys |-> Append(keys, k.val),
                                 vals |-> Append(vals, v.val)]
                           ELSE NoObject
                 ELSE IF s[v.next] = ","
                      THEN ReadMembers(s, v.next + 1, Append(keys, k.val),
                                       Append(vals, v.val))
                 ELSE NoObject

ReadObject(s) ==
    IF s # <<>> /\ Head(s) = "{" THEN ReadMembers(s, 2, <<>>, <<>>) ELSE NoObject

\* The keys and the values a reader must find in the record of the call.
ExpectedKeys(a) ==
    <<Bytes("timestamp"), Bytes("level"), Bytes("message")>>
        \o [i \in 1..Len(a.fields) |-> a.fields[i].Key]

ExpectedVals(a) ==
    <<NowJSON(a.utc), LevelString(a.level), a.msg>>
        \o [i \in 1..Len(a.fields) |-> a.fields[i].Value.v]

JSONRecordReadsBack ==
    LET o == ReadObject(encRes)
    IN  /\ o.ok
        /\ o.keys = ExpectedKeys(encArg)
        /\ o.vals = ExpectedVals(encArg)
        /\ \A i \in 1..Len(encRes) : encRes[i] # NL

\* C7: for every message and every sequence of fields with string values,
\* over any bytes, the JSON record is one line of valid JSON: an object with
\* the keys timestamp, level, message and then the fields' keys in their
\* order, duplicates kept.
C7_JSONValid == encPc = "done" => JSONRecordReadsBack

HasOtherControl(str) == \E i \in 1..Len(str) : str[i] \in ControlBytes \ {NL, "\r", "\t"}

\* The same, when no message, key or value holds a control character other
\* than newline, carriage return and tab.
C7_ValidWithoutOtherControls ==
    (/\ encPc = "done"
     /\ ~HasOtherControl(encArg.msg)
     /\ \A i \in 1..Len(encArg.fields) :
           /\ ~HasOtherControl(encArg.fields[i].Key)
           /\ ~HasOtherControl(encArg.fields[i].Value.v))
    => JSONRecordReadsBack

====
